---- MODULE Spec2Model ----
(***************************************************************************)
(* Patient monitor: the per-frame decision logic of                        *)
(*   src/Gesture/gesture_fall_storke.py  (fall + stroke + gesture)         *)
(*   src/Gesture/only_gesture.py         (gesture only)                    *)
(*                                                                         *)
(* The main loop is one sequential process; pc is its position.  One loop  *)
(* iteration is the chain  read -> fall -> stroke -> gesture -> display     *)
(* (read -> gesture -> display in only_gesture.py), one action per block   *)
(* of the loop body.  The perception provider (camera, MediaPipe pose /    *)
(* face mesh / hands), the keyboard and the clock time.time() are the      *)
(* environment: their results are the inputs of the actions.               *)
(*                                                                         *)
(* Time is counted in ticks of 1/TicksPerSecond s, landmark y coordinates  *)
(* in units of 0.03 of the normalised image height.  A Python None is the     *)
(* empty tuple <<>> for numbers (a value v is <<v>>) and the string "None" *)
(* for gesture labels; an empty Python string is "" or, for a formatted    *)
(* text, the empty tuple.                                                  *)
(*                                                                         *)
(* Values that the code computes in a frame and never reads in a later     *)
(* frame before overwriting them (elapsed, asymmetry, gesture,             *)
(* hold_duration, seconds_left), the detectors' results and what is drawn  *)
(* on the frame are "the value of the current frame": GrabFrame clears     *)
(* them, and they are <<>> / "None" / "not seen" until the frame computes  *)
(* them.  After Display they hold the results of the completed frame,      *)
(* except the finger vector, which only identify_gesture reads.            *)
(***************************************************************************)
EXTENDS Integers, Sequences, FiniteSets, TLC

\* ------------------------------------------------------------------ bounds
\* largest clock reading, in ticks
MaxTime == 12
\* largest advance of the clock between two consecutive readings, in ticks
MaxAdvance == 2
\* largest landmark y coordinate, in units of 0.03
MaxY == 2
\* largest backward step of a clock that is set back, in ticks
MaxBack == 1

\* --------------------------------------------------------------- constants
TicksPerSecond == 2

BODY_MISSING_THRESHOLD == 5 * TicksPerSecond
\* 0.03, in units of 0.03
FACE_ASYMMETRY_THRESHOLD == 1
GESTURE_HOLD_TIME == 3 * TicksPerSecond

None == "None"
Seen(b) == IF b THEN "present" ELSE "absent"
\* a detector not run yet on the current frame
NotSeen == "not seen"
NoValue == <<>>

\* the status line not drawn yet
NoColor == "none"
GREEN == "green"
RED == "red"

FALL_TEXT == "FALL DETECTED / PATIENT MISSING"
STROKE_TEXT == "POSSIBLE STROKE DETECTED"
MONITORING == "Monitoring Active"
EMERGENCY_TEXT == "EMERGENCY: THUMB TRIGGERED"

FALL_STROKE == "gesture_fall_storke.py"
ONLY_GESTURE == "only_gesture.py"

\* ----------------------------------------------------------------- helpers
Abs(x) == IF x < 0 THEN -x ELSE x

\* math.ceil of a duration of d ticks, in whole seconds
CeilSeconds(d) == -((-d) \div TicksPerSecond)

\* mutant: the duration is rounded up instead of truncated
IntSecondsRoundedUp(d) == CeilSeconds(d)

\* int() of a duration of d ticks, in whole seconds (truncation toward zero)
IntSeconds(d) == IF d >= 0 THEN d \div TicksPerSecond ELSE -((-d) \div TicksPerSecond)

\* the 32 finger vectors [Thumb, Index, Middle, Ring, Pinky]
FingerVectors == [1..5 -> {0, 1}]

\* mutant: the open hand is read as "Uncomfortable" too
identify_gesture_open_hand(f) ==
    IF f = <<1, 0, 0, 0, 0>> THEN "THUMB_EMERGENCY"
    ELSE IF f = <<1, 1, 0, 0, 0>> THEN "Need Water/Food"
    ELSE IF f = <<0, 1, 0, 0, 0>> THEN "Want Restroom"
    ELSE IF f = <<0, 0, 1, 1, 1>> THEN "Want Medicine"
    ELSE IF f = <<1, 0, 1, 1, 1>> THEN "Adjust Position"
    ELSE IF f = <<0, 1, 1, 0, 0>> THEN "Call Caregiver"
    ELSE IF f = <<1, 1, 1, 0, 0>> THEN "Uncomfortable"
    ELSE IF f = <<1, 1, 1, 1, 1>> THEN "Uncomfortable"
    ELSE None

identify_gesture(f) ==
    IF f = <<1, 0, 0, 0, 0>> THEN "THUMB_EMERGENCY"
    ELSE IF f = <<1, 1, 0, 0, 0>> THEN "Need Water/Food"
    ELSE IF f = <<0, 1, 0, 0, 0>> THEN "Want Restroom"
    ELSE IF f = <<0, 0, 1, 1, 1>> THEN "Want Medicine"
    ELSE IF f = <<1, 0, 1, 1, 1>> THEN "Adjust Position"
    ELSE IF f = <<0, 1, 1, 0, 0>> THEN "Call Caregiver"
    ELSE IF f = <<1, 1, 1, 0, 0>> THEN "Uncomfortable"
    ELSE None

\* mutant: the thumb-only pattern keeps the emergency label of the other script
only_identify_gesture_emergency(f) ==
    IF f = <<1, 0, 0, 0, 0>> THEN "THUMB_EMERGENCY"
    ELSE IF f = <<1, 1, 0, 0, 0>> THEN "Need Water/Food"
    ELSE IF f = <<0, 1, 0, 0, 0>> THEN "Want Restroom"
    ELSE IF f = <<0, 0, 1, 1, 1>> THEN "Want Medicine"
    ELSE IF f = <<0, 1, 1, 0, 0>> THEN "Call Caregiver"
    ELSE IF f = <<1, 1, 1, 0, 0>> THEN "Uncomfortable"
    ELSE None

only_identify_gesture(f) ==
    IF f = <<1, 0, 0, 0, 0>> THEN "Adjust Position"
    ELSE IF f = <<1, 1, 0, 0, 0>> THEN "Need Water/Food"
    ELSE IF f = <<0, 1, 0, 0, 0>> THEN "Want Restroom"
    ELSE IF f = <<0, 0, 1, 1, 1>> THEN "Want Medicine"
    ELSE IF f = <<0, 1, 1, 0, 0>> THEN "Call Caregiver"
    ELSE IF f = <<1, 1, 1, 0, 0>> THEN "Uncomfortable"
    ELSE None

get_mouth_asymmetry(face) ==
    LET left_rel == Abs(face.left_mouth - face.nose)
        right_rel == Abs(face.right_mouth - face.nose)
    IN Abs(left_rel - right_rel)

\* the Python test  "EMERGENCY" in s  on the strings confirmed_text can hold
ContainsEmergency(s) == s \in {"THUMB_EMERGENCY", EMERGENCY_TEXT}

\* ------------------------------------------------------------------- state
VARIABLES
    variant,             \* which script is running
    pc,                  \* position in the main loop, "done" after break
    clock,               \* latest reading of time.time()
    success,             \* result of the latest cap.read()
    body_present,        \* pose_results.pose_landmarks of the latest frame
    body_missing_start,
    fall_alert_active,
    elapsed,
    searching_text,      \* the "Searching Body" text drawn in the latest frame
    top_alert_text,
    banner_text,         \* the "ALERT: ..." text drawn in the latest frame
    status_color,
    face_present,        \* face_results.multi_face_landmarks of the latest frame
    asymmetry,
    hand_present,        \* hand_results.multi_hand_landmarks of the latest frame
    fingers,
    gesture,
    current_gesture,
    gesture_start_time,
    hold_duration,
    seconds_left,
    confirmed_text,
    countdown_text,
    display_color        \* colour the "Status: ..." line was drawn in

presence_vars == <<body_present, body_missing_start, fall_alert_active, elapsed,
                   searching_text>>
stroke_vars == <<face_present, asymmetry>>
gesture_vars == <<hand_present, fingers, gesture, current_gesture, gesture_start_time,
                  hold_duration, seconds_left, confirmed_text, countdown_text>>
display_vars == <<top_alert_text, banner_text, status_color, display_color>>
vars == <<variant, pc, clock, success, presence_vars, stroke_vars, gesture_vars,
          display_vars>>

Init ==
    /\ variant \in {FALL_STROKE, ONLY_GESTURE}
    /\ pc = "read"
    /\ clock = 0
    /\ success = FALSE
    /\ body_present = NotSeen
    /\ body_missing_start = NoValue
    /\ fall_alert_active = FALSE
    /\ elapsed = NoValue
    /\ searching_text = NoValue
    /\ top_alert_text = ""
    /\ banner_text = ""
    /\ status_color = GREEN
    /\ face_present = NotSeen
    /\ asymmetry = NoValue
    /\ hand_present = NotSeen
    /\ fingers = NoValue
    /\ gesture = None
    /\ current_gesture = None
    /\ gesture_start_time = 0
    /\ hold_duration = NoValue
    /\ seconds_left = NoValue
    /\ confirmed_text = MONITORING
    /\ countdown_text = NoValue
    /\ display_color = NoColor

\* ------------------------------------------------------------ environment
Min(a, b) == IF a < b THEN a ELSE b

\* the readings time.time() can return after it returned c
ClockReads(c) == c .. Min(c + MaxAdvance, MaxTime)

Max(a, b) == IF a > b THEN a ELSE b

\* the same when the wall clock can also be set back by up to back ticks
\* between two readings (time.time() is not monotonic)
JumpReads(c, back) == (Max(c - back, 0) .. c) \cup ClockReads(c)

\* the landmarks 61, 291 and 1 of a detected face
FaceLandmarks == [left_mouth : 0..MaxY, right_mouth : 0..MaxY, nose : 0..MaxY]

\* ---------------------------------------------------------- loop: lines 92-102
\* mutant: a failed read counts as a frame without a hand
FailedFrameAsNoHand ==
    /\ pc = "read"
    /\ success' = FALSE
    /\ current_gesture' = None
    /\ UNCHANGED <<variant, pc, clock, presence_vars, stroke_vars, hand_present, fingers,
                   gesture, gesture_start_time, hold_duration, seconds_left,
                   confirmed_text, countdown_text, display_vars>>

FailedFrame ==
    /\ pc = "read"
    /\ success' = FALSE
    /\ UNCHANGED <<variant, pc, clock, presence_vars, stroke_vars, gesture_vars,
                   display_vars>>

\* mutant: the banner of the previous frame is carried into the new frame
GrabFrameKeepsBanner ==
    /\ pc = "read"
    /\ success' = TRUE
    /\ countdown_text' = NoValue
    /\ IF variant = FALL_STROKE
       THEN /\ status_color' = GREEN
            /\ pc' = "fall"
       ELSE /\ UNCHANGED status_color
            /\ pc' = "gesture"
    /\ searching_text' = NoValue
    /\ banner_text' = ""
    /\ display_color' = NoColor
    /\ body_present' = NotSeen
    /\ face_present' = NotSeen
    /\ hand_present' = NotSeen
    /\ elapsed' = NoValue
    /\ asymmetry' = NoValue
    /\ fingers' = NoValue
    /\ gesture' = None
    /\ hold_duration' = NoValue
    /\ seconds_left' = NoValue
    /\ UNCHANGED <<variant, clock, body_missing_start, fall_alert_active,
                   current_gesture, gesture_start_time, confirmed_text, top_alert_text>>

GrabFrame ==
    /\ pc = "read"
    /\ success' = TRUE
    /\ countdown_text' = NoValue
    /\ IF variant = FALL_STROKE
       THEN /\ status_color' = GREEN
            /\ top_alert_text' = ""
            /\ pc' = "fall"
       ELSE /\ UNCHANGED <<status_color, top_alert_text>>
            /\ pc' = "gesture"
    \* a fresh image, nothing drawn on it and nothing computed from it yet
    /\ searching_text' = NoValue
    /\ banner_text' = ""
    /\ display_color' = NoColor
    /\ body_present' = NotSeen
    /\ face_present' = NotSeen
    /\ hand_present' = NotSeen
    /\ elapsed' = NoValue
    /\ asymmetry' = NoValue
    /\ fingers' = NoValue
    /\ gesture' = None
    /\ hold_duration' = NoValue
    /\ seconds_left' = NoValue
    /\ UNCHANGED <<variant, clock, body_missing_start, fall_alert_active,
                   current_gesture, gesture_start_time, confirmed_text>>

\* ------------------------------------------------- MODULE A: fall detection
\* mutant: the alert fires at the threshold instead of past it
FallExceededAtThreshold(e) == e >= BODY_MISSING_THRESHOLD

FallExceeded(e) == e > BODY_MISSING_THRESHOLD

\* body of  if not pose_results.pose_landmarks:  with the clock read t1 at
\* line 111 (when it is read) and t2 at line 113
BodyMissing(t1, t2) ==
    LET start == IF body_missing_start = NoValue THEN <<t1>> ELSE body_missing_start
        e == t2 - start[1]
    IN /\ body_missing_start' = start
       /\ elapsed' = <<e>>
       /\ IF FallExceeded(e)
          THEN /\ top_alert_text' = FALL_TEXT
               /\ status_color' = RED
               /\ fall_alert_active' = TRUE
               /\ searching_text' = NoValue
          ELSE /\ searching_text' = <<"Searching Body: ", IntSeconds(BODY_MISSING_THRESHOLD - e), "s">>
               /\ UNCHANGED <<top_alert_text, status_color, fall_alert_active>>

\* mutant: finding the body again leaves the alert flag set
BodyFoundKeepsAlert ==
    /\ body_missing_start' = NoValue
    /\ elapsed' = NoValue
    /\ searching_text' = NoValue
    /\ UNCHANGED <<top_alert_text, status_color, fall_alert_active>>

BodyFound ==
    /\ body_missing_start' = NoValue
    /\ fall_alert_active' = FALSE
    /\ elapsed' = NoValue
    /\ searching_text' = NoValue
    /\ UNCHANGED <<top_alert_text, status_color>>

\* mutant: finding the body again also drops the gesture being held
FallDetectionClearsGesture(back) ==
    /\ pc = "fall"
    /\ \E pose_landmarks \in BOOLEAN :
         /\ body_present' = Seen(pose_landmarks)
         /\ IF ~pose_landmarks
            THEN \E t1 \in JumpReads(clock, back) : \E t2 \in JumpReads(t1, back) :
                   /\ body_missing_start # NoValue => t1 = clock
                   /\ BodyMissing(t1, t2)
                   /\ clock' = t2
                   /\ UNCHANGED current_gesture
            ELSE BodyFound /\ clock' = clock /\ current_gesture' = None
    /\ pc' = "stroke"
    /\ UNCHANGED <<variant, success, stroke_vars, hand_present, fingers, gesture,
                   gesture_start_time, hold_duration, seconds_left, confirmed_text,
                   countdown_text, banner_text, display_color>>

FallDetectionClock(back) ==
    /\ pc = "fall"
    /\ \E pose_landmarks \in BOOLEAN :
         /\ body_present' = Seen(pose_landmarks)
         /\ IF ~pose_landmarks
            THEN \E t1 \in JumpReads(clock, back) : \E t2 \in JumpReads(t1, back) :
                   /\ body_missing_start # NoValue => t1 = clock
                   /\ BodyMissing(t1, t2)
                   /\ clock' = t2
            ELSE BodyFound /\ clock' = clock
    /\ pc' = "stroke"
    /\ UNCHANGED <<variant, success, stroke_vars, gesture_vars, banner_text,
                   display_color>>

\* with a clock that never goes back
FallDetection == FallDetectionClock(0)

\* ----------------------------------------------- MODULE B: stroke detection
StrokeSuspected(a) == a > FACE_ASYMMETRY_THRESHOLD

\* mutant: the stroke message overwrites whatever the banner holds
BannerFreeAlways == TRUE

\* line 135: the banner slot is still empty
BannerFree == top_alert_text = ""

StrokeDetection ==
    /\ pc = "stroke"
    /\ \/ /\ face_present' = Seen(FALSE)
          /\ asymmetry' = NoValue
          /\ UNCHANGED <<top_alert_text, status_color>>
       \/ \E a \in {get_mouth_asymmetry(face_lm) : face_lm \in FaceLandmarks} :
            /\ face_present' = Seen(TRUE)
            /\ asymmetry' = <<a>>
            /\ IF StrokeSuspected(a) /\ BannerFree
               THEN /\ top_alert_text' = STROKE_TEXT
                    /\ status_color' = RED
               ELSE UNCHANGED <<top_alert_text, status_color>>
    /\ pc' = "gesture"
    /\ UNCHANGED <<variant, clock, success, presence_vars, gesture_vars, banner_text,
                   display_color>>

\* -------------------------------------------- MODULE C: gesture recognition
\* mutant: the gesture is confirmed at the hold time instead of past it
HoldExceededAtThreshold(d) == d >= GESTURE_HOLD_TIME

\* mutant: the hold time is never reached
HoldExceededNever(d) == FALSE

HoldExceeded(d) == d > GESTURE_HOLD_TIME

\* mutant: the remaining time is truncated instead of rounded up
SecondsLeftTruncated(d) == IntSeconds(GESTURE_HOLD_TIME - d)

SecondsLeft(d) == CeilSeconds(GESTURE_HOLD_TIME - d)

\* mutant: the emergency gesture is confirmed under its label, like the others
ConfirmedTextPlain(g) == g

\* lines 167-171 / only_gesture.py line 109
ConfirmedText(g) ==
    IF variant = FALL_STROKE /\ g = "THUMB_EMERGENCY" THEN EMERGENCY_TEXT ELSE g

\* lines 167-174 / only_gesture.py line 110
ConfirmedColor(g) ==
    IF variant = FALL_STROKE
    THEN IF g = "THUMB_EMERGENCY" THEN RED
         ELSE IF ~ContainsEmergency(g) THEN GREEN ELSE status_color
    ELSE GREEN

\* identify_gesture of the running script
IdentifyGesture(f) ==
    IF variant = FALL_STROKE THEN identify_gesture(f) ELSE only_identify_gesture(f)

\* mutant: a confirmation restarts the hold timer
SameGestureRestartsTimer(g, t) ==
    LET d == t - gesture_start_time
    IN /\ hold_duration' = <<d>>
       /\ seconds_left' = <<SecondsLeft(d)>>
       /\ IF HoldExceeded(d)
          THEN /\ confirmed_text' = ConfirmedText(g)
               /\ status_color' = ConfirmedColor(g)
               /\ gesture_start_time' = t
               /\ UNCHANGED countdown_text
          ELSE /\ countdown_text' = <<"Holding: ", SecondsLeft(d), "s">>
               /\ UNCHANGED <<confirmed_text, status_color, gesture_start_time>>
       /\ UNCHANGED current_gesture

\* the same gesture as in the previous frame: lines 160-183, clock read t
SameGesture(g, t) ==
    LET d == t - gesture_start_time
    IN /\ hold_duration' = <<d>>
       /\ seconds_left' = <<SecondsLeft(d)>>
       /\ IF HoldExceeded(d)
          THEN /\ confirmed_text' = ConfirmedText(g)
               /\ status_color' = ConfirmedColor(g)
               /\ UNCHANGED countdown_text
          ELSE /\ countdown_text' = <<"Holding: ", SecondsLeft(d), "s">>
               /\ UNCHANGED <<confirmed_text, status_color>>
       /\ UNCHANGED <<current_gesture, gesture_start_time>>

\* mutant: a new gesture keeps the timer of the previous one
NewGestureKeepsTimer(g, t) ==
    /\ current_gesture' = g
    /\ hold_duration' = NoValue
    /\ seconds_left' = NoValue
    /\ UNCHANGED <<gesture_start_time, confirmed_text, status_color, countdown_text>>

\* a new gesture: lines 186-187, clock read t
NewGesture(g, t) ==
    /\ current_gesture' = g
    /\ gesture_start_time' = t
    /\ hold_duration' = NoValue
    /\ seconds_left' = NoValue
    /\ UNCHANGED <<confirmed_text, status_color, countdown_text>>

\* mutant: losing the gesture also resets the confirmed status to idle
NoGestureClearsStatus ==
    /\ current_gesture' = None
    /\ confirmed_text' = MONITORING
    /\ hold_duration' = NoValue
    /\ seconds_left' = NoValue
    /\ UNCHANGED <<gesture_start_time, status_color, countdown_text>>

\* hand visible but gesture unknown (line 190), or no hands visible (line 193)
NoGesture ==
    /\ current_gesture' = None
    /\ hold_duration' = NoValue
    /\ seconds_left' = NoValue
    /\ UNCHANGED <<gesture_start_time, confirmed_text, status_color, countdown_text>>

GestureRecognitionClock(back) ==
    /\ pc = "gesture"
    /\ \/ /\ hand_present' = Seen(FALSE)
          /\ fingers' = NoValue
          /\ gesture' = None
          /\ NoGesture
          /\ clock' = clock
       \/ \E f \in FingerVectors :
            LET g == IdentifyGesture(f)
            IN /\ hand_present' = Seen(TRUE)
               /\ fingers' = f
               /\ gesture' = g
               /\ IF g # None
                  THEN \E t \in JumpReads(clock, back) :
                         /\ clock' = t
                         /\ IF g = current_gesture
                            THEN SameGesture(g, t)
                            ELSE NewGesture(g, t)
                  ELSE NoGesture /\ clock' = clock
    /\ pc' = "display"
    /\ UNCHANGED <<variant, success, presence_vars, stroke_vars, top_alert_text,
                   banner_text, display_color>>

\* with a clock that never goes back
GestureRecognition == GestureRecognitionClock(0)

\* ------------------------------------------------ final display composition
\* mutant: the emergency status no longer forces the red colour
DisplayColorUnforced == status_color

DisplayColor ==
    IF variant = FALL_STROKE /\ ContainsEmergency(confirmed_text) THEN RED ELSE status_color

Display ==
    /\ pc = "display"
    /\ banner_text' = top_alert_text
    /\ display_color' = DisplayColor
    /\ \E key_q \in BOOLEAN : pc' = IF key_q THEN "done" ELSE "read"
    \* the finger vector is an argument of identify_gesture only
    /\ fingers' = NoValue
    /\ UNCHANGED <<variant, clock, success, presence_vars, stroke_vars, hand_present,
                   gesture, current_gesture, gesture_start_time, hold_duration,
                   seconds_left, confirmed_text, countdown_text, top_alert_text,
                   status_color>>

\* ---------------------------------------------------------- specification
Next ==
    \/ FailedFrame
    \/ GrabFrame
    \/ FallDetection
    \/ StrokeDetection
    \/ GestureRecognition
    \/ Display

Spec == Init /\ [][Next]_vars

\* the loop is a sequential program that runs its next statement whenever it
\* has one: the step of the iteration that is due is eventually taken
SpecLive == Init /\ [][Next]_vars /\ WF_vars(Next)

\* the scripts under a wall clock that can be set back between readings
NextJump ==
    \/ FailedFrame
    \/ GrabFrame
    \/ FallDetectionClock(MaxBack)
    \/ StrokeDetection
    \/ GestureRecognitionClock(MaxBack)
    \/ Display

SpecJump == Init /\ [][NextJump]_vars

\* ================================================================ claims
\* the frame's fall condition: body absent with elapsed > BODY_MISSING_THRESHOLD
FallCondition ==
    body_present = "absent" /\ elapsed # NoValue /\ elapsed[1] > 5 * TicksPerSecond

\* the frame's stroke condition: face present with asymmetry > threshold
StrokeCondition ==
    face_present = "present" /\ asymmetry # NoValue /\ asymmetry[1] > 1

\* the frame's gesture block confirmed a gesture
ConfirmingFrame ==
    gesture # None /\ hold_duration # NoValue /\ hold_duration[1] > 3 * TicksPerSecond

\* ---- C1
C1_State ==
    /\ body_present = "absent" =>
         /\ body_missing_start # NoValue
         /\ elapsed # NoValue
         /\ pc = "stroke" => elapsed[1] = clock - body_missing_start[1]
         /\ fall_alert_active <=> elapsed[1] > 5 * TicksPerSecond
    /\ body_present = "present" =>
         /\ ~fall_alert_active
         /\ body_missing_start = NoValue

C1_Step ==
    /\ (pc = "fall" /\ body_present' = "absent") =>
         IF body_missing_start = NoValue
         THEN /\ body_missing_start' # NoValue
              /\ clock <= body_missing_start'[1]
              /\ body_missing_start'[1] <= clock'
         ELSE body_missing_start' = body_missing_start
    /\ (fall_alert_active /\ body_present' = "absent") => fall_alert_active'

\* C1: with a non-decreasing clock, at the end of every frame with the body
\* absent fall_alert_active is true iff now - body_missing_start exceeds
\* BODY_MISSING_THRESHOLD, body_missing_start being the reading taken in the
\* first frame of the run of absent frames and kept through the run; an
\* active alert stays active on every later absent frame; and after a frame
\* with the body present the alert is off and body_missing_start is None.
C1_PresenceTracker == [](C1_State) /\ [][C1_Step]_vars

C1_Witness ==
    /\ body_present = "absent"
    /\ fall_alert_active
    /\ elapsed = <<5 * TicksPerSecond + 1>>

\* ---- C2
C2_Step ==
    /\ confirmed_text' # confirmed_text =>
         /\ pc = "gesture"
         /\ gesture' # None
         /\ gesture' = current_gesture
         /\ confirmed_text' =
              (IF variant = FALL_STROKE /\ gesture' = "THUMB_EMERGENCY"
               THEN "EMERGENCY: THUMB TRIGGERED" ELSE gesture')
         /\ clock' - gesture_start_time > 3 * TicksPerSecond
         /\ UNCHANGED <<current_gesture, gesture_start_time>>
    /\ (pc = "gesture" /\ current_gesture # None /\ gesture' # current_gesture) =>
         current_gesture' # current_gesture
    /\ (current_gesture' # None
          /\ <<current_gesture, gesture_start_time>>' # <<current_gesture, gesture_start_time>>) =>
         /\ gesture' = current_gesture'
         /\ gesture_start_time' = clock'

\* C2: the confirmed status changes only in a gesture block whose observed
\* label L is the current_gesture left by the previous frame and whose
\* now - gesture_start_time exceeds GESTURE_HOLD_TIME, and it changes to L's
\* status; a frame observing anything else than the held label ends the hold
\* (current_gesture changes), and a label becomes current_gesture only with
\* gesture_start_time set to that frame's clock reading, so a label held for
\* less than the hold time, or interrupted, is not confirmed.
C2_ConfirmOnlyAfterHold == [][C2_Step]_vars

C2_Witness ==
    /\ pc = "display"
    /\ ConfirmingFrame
    /\ confirmed_text = "Need Water/Food"
    /\ hold_duration = <<3 * TicksPerSecond + 1>>

\* ---- C3
C3_Step ==
    /\ confirmed_text # "Monitoring Active" => confirmed_text' # "Monitoring Active"
    /\ (pc = "gesture" /\ confirmed_text # "Monitoring Active"
          /\ \/ hand_present' = "absent"
             \/ gesture' = None
             \/ gesture' # current_gesture
             \/ countdown_text' # NoValue) =>
         confirmed_text' = confirmed_text
    /\ (confirmed_text # "Monitoring Active" /\ confirmed_text' # confirmed_text) =>
         /\ gesture' # None
         /\ hold_duration' # NoValue
         /\ hold_duration'[1] > 3 * TicksPerSecond
         /\ confirmed_text' =
              (IF variant = FALL_STROKE /\ gesture' = "THUMB_EMERGENCY"
               THEN "EMERGENCY: THUMB TRIGGERED" ELSE gesture')

\* C3: once a label is confirmed, confirmed_text keeps its value through every
\* step, in particular through frames with no hand, an unrecognised gesture,
\* a newly observed gesture or a gesture still counted down, until a frame
\* that confirms another label; it never returns to "Monitoring Active".
C3_StickyStatus == [][C3_Step]_vars

C3_Witness ==
    /\ pc = "display"
    /\ confirmed_text = "EMERGENCY: THUMB TRIGGERED"
    /\ hand_present = "absent"
    /\ current_gesture = None

\* ---- C4
\* C4: in every frame where the fall condition and the stroke condition both
\* hold, the banner is the fall message: top_alert_text once both detectors
\* have run, and the text drawn once the frame is displayed.
C4_FallBeatsStroke ==
    (FallCondition /\ StrokeCondition) =>
        /\ top_alert_text = "FALL DETECTED / PATIENT MISSING"
        /\ pc \in {"read", "done"} => banner_text = "FALL DETECTED / PATIENT MISSING"

C4_Witness ==
    /\ FallCondition
    /\ StrokeCondition
    /\ banner_text = "FALL DETECTED / PATIENT MISSING"

\* ---- C5
\* C5 as stated: the status line of every displayed frame is red if the
\* confirmed label is the emergency variant and green otherwise, whatever
\* the banner.
C5_ColourIndependentOfBanner ==
    display_color # NoColor =>
        display_color = (IF confirmed_text = "EMERGENCY: THUMB TRIGGERED"
                         THEN "red" ELSE "green")

\* C5 amended: the status line of every displayed frame is red if the
\* confirmed label is the emergency variant; otherwise it is red exactly in
\* the frames that show a fall or stroke banner and do not confirm a gesture,
\* and green in every other frame.
C5_StatusColour ==
    display_color # NoColor =>
        display_color =
            (IF confirmed_text = "EMERGENCY: THUMB TRIGGERED" THEN "red"
             ELSE IF banner_text # "" /\ ~ConfirmingFrame THEN "red"
             ELSE "green")

C5_Witness ==
    /\ display_color = "red"
    /\ confirmed_text = "Need Water/Food"
    /\ banner_text = "POSSIBLE STROKE DETECTED"
    /\ hand_present = "absent"

\* ---- C6
\* the status of the label observed for finger vector f
C6_StatusOf(f, g) ==
    IF variant = FALL_STROKE /\ f = <<1, 0, 0, 0, 0>>
    THEN "EMERGENCY: THUMB TRIGGERED" ELSE g

\* C6: in every gesture block whose observed label L is current_gesture with
\* now - gesture_start_time > GESTURE_HOLD_TIME, confirmed_text is L's status
\* afterwards: the emergency text for the thumb-only pattern in
\* gesture_fall_storke.py, the label itself otherwise.
C6_ConfirmAtThreshold ==
    [][(pc = "gesture" /\ gesture' # None /\ gesture' = current_gesture
          /\ clock' - gesture_start_time > 3 * TicksPerSecond) =>
        confirmed_text' = C6_StatusOf(fingers', gesture')]_vars

C6_Witness ==
    /\ fingers = <<1, 0, 0, 0, 0>>
    /\ hold_duration = <<7>>
    /\ confirmed_text = "EMERGENCY: THUMB TRIGGERED"

\* ---- C7
\* C7: an iteration whose cap.read() fails changes no tracker variable, runs
\* no detector and stays at the top of the loop.
C7_FailedFrameSkips ==
    [][(pc = "read" /\ success' = FALSE) =>
        /\ pc' = "read"
        /\ UNCHANGED <<body_missing_start, fall_alert_active, current_gesture,
                       gesture_start_time, confirmed_text>>
        /\ UNCHANGED <<body_present, hand_present, clock>>]_vars

C7_Witness ==
    /\ pc = "read"
    /\ success = FALSE
    /\ body_missing_start # NoValue
    /\ ~fall_alert_active
    /\ current_gesture = "Want Restroom"
    /\ confirmed_text = "Monitoring Active"

\* ---- C8
\* the table of gesture_fall_storke.py, and the one of only_gesture.py
C8_Table ==
    IF variant = FALL_STROKE
    THEN { <<<<1, 0, 0, 0, 0>>, "THUMB_EMERGENCY">>,
           <<<<1, 1, 0, 0, 0>>, "Need Water/Food">>,
           <<<<0, 1, 0, 0, 0>>, "Want Restroom">>,
           <<<<0, 0, 1, 1, 1>>, "Want Medicine">>,
           <<<<1, 0, 1, 1, 1>>, "Adjust Position">>,
           <<<<0, 1, 1, 0, 0>>, "Call Caregiver">>,
           <<<<1, 1, 1, 0, 0>>, "Uncomfortable">> }
    ELSE { <<<<1, 0, 0, 0, 0>>, "Adjust Position">>,
           <<<<1, 1, 0, 0, 0>>, "Need Water/Food">>,
           <<<<0, 1, 0, 0, 0>>, "Want Restroom">>,
           <<<<0, 0, 1, 1, 1>>, "Want Medicine">>,
           <<<<0, 1, 1, 0, 0>>, "Call Caregiver">>,
           <<<<1, 1, 1, 0, 0>>, "Uncomfortable">> }

C8_Labels ==
    {"THUMB_EMERGENCY", "Need Water/Food", "Want Restroom", "Want Medicine",
     "Adjust Position", "Call Caregiver", "Uncomfortable"}

\* C8: for every finger vector a frame can show, the label identify_gesture
\* returned is one of the 7 labels or None; it is the table's label when the
\* vector is in the table and None otherwise; and no other of the 32 vectors
\* is given the same label.
C8_Classifier ==
    (pc = "display" /\ hand_present = "present") =>
        /\ fingers \in FingerVectors
        /\ gesture \in C8_Labels \cup {None}
        /\ \A e \in C8_Table : e[1] = fingers => gesture = e[2]
        /\ (\A e \in C8_Table : e[1] # fingers) => gesture = None
        /\ gesture # None =>
             \A f \in FingerVectors \ {fingers} : IdentifyGesture(f) # gesture

C8_Witness ==
    /\ pc = "display"
    /\ hand_present = "present"
    /\ fingers = <<1, 0, 1, 1, 1>>
    /\ gesture = "Adjust Position"

\* ---- C9
C9_State ==
    (hand_present = "absent" \/ (hand_present = "present" /\ gesture = None)) =>
        current_gesture = None

C9_Step ==
    /\ (current_gesture' # current_gesture /\ current_gesture' # None) =>
         /\ pc = "gesture"
         /\ gesture' = current_gesture'
         /\ gesture_start_time' = clock'
    /\ (pc = "gesture" /\ gesture' # None /\ gesture' # current_gesture) =>
         /\ current_gesture' = gesture'
         /\ gesture_start_time' = clock'
    /\ (pc = "gesture" /\ gesture' # None /\ gesture' = current_gesture) =>
         UNCHANGED <<current_gesture, gesture_start_time>>

\* C9: after a gesture block that saw no hand or an unrecognised gesture
\* current_gesture is None; current_gesture changes to a label only in a
\* gesture block whose observed label differs from the current_gesture of
\* the previous frame, and then gesture_start_time is that frame's clock
\* reading; a block observing current_gesture again changes neither.
C9_HoldState == [](C9_State) /\ [][C9_Step]_vars

C9_Witness ==
    /\ pc = "display"
    /\ current_gesture = "Call Caregiver"
    /\ gesture = "Call Caregiver"
    /\ gesture_start_time = clock
    /\ clock > 0
    /\ hold_duration = NoValue

\* ---- C10
\* ceil((GESTURE_HOLD_TIME - d) / TicksPerSecond): the least whole number of
\* seconds that covers the remaining 3 * TicksPerSecond - d ticks
C10_CeilRemaining(d) ==
    CHOOSE n \in 0..3 :
        /\ n * TicksPerSecond >= 3 * TicksPerSecond - d
        /\ (n - 1) * TicksPerSecond < 3 * TicksPerSecond - d

C10_Step ==
    /\ pc = "gesture" =>
         IF /\ gesture' # None
            /\ gesture' = current_gesture
            /\ clock' - gesture_start_time <= 3 * TicksPerSecond
         THEN countdown_text' =
                <<"Holding: ", C10_CeilRemaining(clock' - gesture_start_time), "s">>
         ELSE countdown_text' = NoValue
    /\ (pc = "gesture" /\ countdown_text' # NoValue) =>
         UNCHANGED <<confirmed_text, fall_alert_active, top_alert_text, status_color>>

\* C10: with a non-decreasing clock, a gesture block whose observed label is
\* current_gesture with elapsed = now - gesture_start_time at most
\* GESTURE_HOLD_TIME shows the countdown ceil(GESTURE_HOLD_TIME - elapsed) s;
\* every other gesture block (confirming, first frame of a label, no gesture)
\* shows none; and a block that shows a countdown changes neither the
\* confirmed status nor the fall alert, the banner or the status colour.
C10_Countdown == [][C10_Step]_vars

C10_Witness ==
    /\ pc = "display"
    /\ hold_duration = <<3>>
    /\ countdown_text = <<"Holding: ", 2, "s">>

\* ---- C11
\* C11: with a non-decreasing clock, every gesture block that observes the
\* tracked label L with the clock reading past gesture_start_time +
\* GESTURE_HOLD_TIME confirms L (no countdown) and leaves current_gesture and
\* gesture_start_time as they were, the first confirming frame included; and
\* once L is confirmed and the clock is past the hold time, every further
\* such block also leaves confirmed_text as it was.
C11_IdempotentConfirmation ==
    [][/\ (/\ pc = "gesture"
           /\ current_gesture # None
           /\ gesture' = current_gesture
           /\ clock' - gesture_start_time > 3 * TicksPerSecond) =>
           /\ hold_duration' # NoValue
           /\ hold_duration'[1] > 3 * TicksPerSecond
           /\ countdown_text' = NoValue
           /\ confirmed_text' =
                (IF variant = FALL_STROKE /\ current_gesture = "THUMB_EMERGENCY"
                 THEN "EMERGENCY: THUMB TRIGGERED" ELSE current_gesture)
           /\ UNCHANGED <<current_gesture, gesture_start_time>>
       /\ (/\ pc = "gesture"
           /\ current_gesture # None
           /\ gesture' = current_gesture
           /\ clock - gesture_start_time > 3 * TicksPerSecond
           /\ confirmed_text =
                (IF variant = FALL_STROKE /\ current_gesture = "THUMB_EMERGENCY"
                 THEN "EMERGENCY: THUMB TRIGGERED" ELSE current_gesture)) =>
           /\ hold_duration' # NoValue
           /\ hold_duration'[1] > 3 * TicksPerSecond
           /\ countdown_text' = NoValue
           /\ UNCHANGED <<current_gesture, gesture_start_time, confirmed_text>>]_vars

C11_Witness ==
    /\ variant = ONLY_GESTURE
    /\ pc = "display"
    /\ gesture = "Want Medicine"
    /\ confirmed_text = "Want Medicine"
    /\ hold_duration = <<3 * TicksPerSecond + 3>>
    /\ gesture_start_time = 2

\* ---- C12
\* the fall alert is reported in the frame
C12_FallReported ==
    fall_alert_active /\ top_alert_text = "FALL DETECTED / PATIENT MISSING"

\* C12 as stated: a frame with the body absent either reports the fall alert
\* and shows no countdown (elapsed > threshold), or reports no fall alert and
\* shows the remaining time BODY_MISSING_THRESHOLD - elapsed; a frame with
\* the body present shows no countdown.
C12_ExactRemaining ==
    /\ body_present = "absent" =>
         IF elapsed[1] > 5 * TicksPerSecond
         THEN C12_FallReported /\ searching_text = NoValue
         ELSE /\ ~fall_alert_active
              /\ top_alert_text # "FALL DETECTED / PATIENT MISSING"
              /\ searching_text # NoValue
              /\ searching_text[2] * TicksPerSecond = 5 * TicksPerSecond - elapsed[1]
    /\ body_present = "present" => searching_text = NoValue

\* C12 amended: as stated, except that the countdown shown is
\* int(BODY_MISSING_THRESHOLD - elapsed), the remaining time truncated to
\* whole seconds.
C12_PresenceCountdown ==
    /\ body_present = "absent" =>
         IF elapsed[1] > 5 * TicksPerSecond
         THEN C12_FallReported /\ searching_text = NoValue
         ELSE /\ ~fall_alert_active
              /\ top_alert_text # "FALL DETECTED / PATIENT MISSING"
              /\ searching_text # NoValue
              /\ searching_text[1] = "Searching Body: "
              /\ searching_text[2] * TicksPerSecond <= 5 * TicksPerSecond - elapsed[1]
              /\ (searching_text[2] + 1) * TicksPerSecond > 5 * TicksPerSecond - elapsed[1]
    /\ body_present = "present" => searching_text = NoValue

C12_Witness ==
    /\ body_present = "absent"
    /\ elapsed = <<3>>
    /\ searching_text = <<"Searching Body: ", 3, "s">>

\* ---- C13
\* C13: the banner drawn in a displayed frame is the stroke message iff that
\* frame saw a face with asymmetry > FACE_ASYMMETRY_THRESHOLD and did not set
\* the fall banner, the fall message iff the frame's fall condition holds,
\* and empty iff neither holds: it depends on the frame alone.
C13_StrokeBannerStateless ==
    display_color # NoColor =>
        /\ banner_text = "POSSIBLE STROKE DETECTED" <=>
             (StrokeCondition /\ ~FallCondition)
        /\ banner_text = "" <=> (~StrokeCondition /\ ~FallCondition)
        /\ banner_text \in {"", "POSSIBLE STROKE DETECTED",
                            "FALL DETECTED / PATIENT MISSING"}

C13_Witness ==
    /\ display_color # NoColor
    /\ banner_text = "POSSIBLE STROKE DETECTED"
    /\ body_present = "absent"
    /\ asymmetry = <<2>>

\* ---- C14
\* C14: for any sequence of clock readings, decreasing ones included, an
\* active fall alert stays active and its banner is set on every later frame
\* with the body still absent, and the elapsed times computed by the fall
\* block and by the gesture block are never negative.
C14_ClockJumps ==
    [][/\ (pc = "fall" /\ fall_alert_active /\ body_present' = "absent") =>
            (fall_alert_active' /\ top_alert_text' = "FALL DETECTED / PATIENT MISSING")
       /\ elapsed' # NoValue => elapsed'[1] >= 0
       /\ hold_duration' # NoValue => hold_duration'[1] >= 0]_vars

\* ---- C15
\* the gesture state after the gesture block, from the gesture state before
\* it, the label g observed in the frame and the clock reading t
C15_GestureAfter(g, t) ==
    IF g = None THEN <<None, gesture_start_time, confirmed_text>>
    ELSE IF g # current_gesture THEN <<g, t, confirmed_text>>
    ELSE IF t - gesture_start_time > GESTURE_HOLD_TIME
         THEN <<g, gesture_start_time, ConfirmedText(g)>>
         ELSE <<g, gesture_start_time, confirmed_text>>

\* the presence state after the fall block is fixed by the presence state
\* before it, the body observation and the clock readings of the block
C15_PresenceAfter ==
    IF body_present' = "present"
    THEN body_missing_start' = NoValue /\ ~fall_alert_active'
    ELSE /\ IF body_missing_start = NoValue
            THEN \E t \in clock .. clock' : body_missing_start' = <<t>>
            ELSE body_missing_start' = body_missing_start
         /\ fall_alert_active' =
              (fall_alert_active \/ clock' - body_missing_start'[1] > BODY_MISSING_THRESHOLD)

C15_Step ==
    /\ pc \in {"fall", "stroke"} =>
         UNCHANGED <<current_gesture, gesture_start_time, confirmed_text>>
    /\ pc = "gesture" => UNCHANGED <<body_missing_start, fall_alert_active>>
    /\ pc = "gesture" =>
         <<current_gesture', gesture_start_time', confirmed_text'>> =
             C15_GestureAfter(gesture', clock')
    /\ pc = "fall" => C15_PresenceAfter

\* C15: the fall and stroke blocks leave current_gesture, gesture_start_time
\* and confirmed_text unchanged and the gesture block leaves
\* body_missing_start and fall_alert_active unchanged; the gesture state after
\* a frame is a function of the gesture state before it, the observed label
\* and the clock reading, and the presence state a function of the presence
\* state before it, body_present and the clock readings.
C15_TrackerIndependence == [][C15_Step]_vars

C15_Witness ==
    /\ pc = "display"
    /\ fall_alert_active
    /\ body_present = "absent"
    /\ current_gesture = "Call Caregiver"
    /\ confirmed_text = "Want Medicine"
    /\ hold_duration # NoValue

\* ---- C17
\* C17: with a non-decreasing clock, once a frame has been displayed the
\* banner is "FALL DETECTED / PATIENT MISSING" exactly when fall_alert_active
\* is true, and fall_alert_active implies that body_missing_start is set.
C17_FallStateMatchesDisplay ==
    /\ display_color # NoColor =>
         (banner_text = "FALL DETECTED / PATIENT MISSING" <=> fall_alert_active)
    /\ fall_alert_active => body_missing_start # NoValue

C17_Witness ==
    /\ pc = "read"
    /\ display_color = RED
    /\ fall_alert_active
    /\ banner_text = "FALL DETECTED / PATIENT MISSING"
    /\ body_missing_start # NoValue

\* ---- C18
C18_Labels ==
    {"Adjust Position", "Need Water/Food", "Want Restroom", "Want Medicine",
     "Call Caregiver", "Uncomfortable"}

\* C18: in only_gesture.py confirmed_text is "Monitoring Active" or one of
\* the six labels of its table, never an emergency status; the status colour
\* is green in every frame; and the thumb-only pattern held past the hold
\* time confirms "Adjust Position".
C18_GesturesOnlyNoEmergency ==
    variant = ONLY_GESTURE =>
        /\ confirmed_text \in C18_Labels \cup {"Monitoring Active"}
        /\ ~ContainsEmergency(confirmed_text)
        /\ status_color = GREEN
        /\ display_color \in {NoColor, GREEN}
        /\ (/\ pc = "display"
            /\ fingers = <<1, 0, 0, 0, 0>>
            /\ hold_duration # NoValue
            /\ hold_duration[1] > GESTURE_HOLD_TIME) => confirmed_text = "Adjust Position"

C18_Witness ==
    /\ variant = ONLY_GESTURE
    /\ pc = "display"
    /\ fingers = <<1, 0, 0, 0, 0>>
    /\ hold_duration # NoValue
    /\ hold_duration[1] > GESTURE_HOLD_TIME
    /\ confirmed_text = "Adjust Position"
    /\ display_color = NoColor

\* ---- C16
\* frames keep being processed
C16_FramesProcessed == []<>(pc = "display")

\* from some frame on, every processed frame observes the label of the frame
\* before it
C16_SameLabel ==
    <>[][pc = "gesture" => (gesture' # None /\ gesture' = current_gesture)]_vars

\* the clock leaves the start of the hold behind by more than the hold time
\* (what an unbounded clock does to any fixed start time)
C16_ClockAdvances == []<>(clock - gesture_start_time > GESTURE_HOLD_TIME)

\* C16: if from some frame on every processed frame observes the same
\* recognised label, frames keep being processed and the clock advances past
\* the hold time, then eventually the confirmed status is that label's status
\* and stays so while the label keeps being observed.
C16_EventualConfirmation ==
    (C16_FramesProcessed /\ C16_SameLabel /\ C16_ClockAdvances) =>
        <>[](current_gesture # None /\ confirmed_text = ConfirmedText(current_gesture))

C16_Witness ==
    /\ pc = "display"
    /\ gesture = "Uncomfortable"
    /\ current_gesture = "Uncomfortable"
    /\ hold_duration # NoValue
    /\ hold_duration[1] > GESTURE_HOLD_TIME
    /\ confirmed_text = "Uncomfortable"
    /\ clock = MaxTime
====
